---- MODULE Spec2Model ----
(***************************************************************************)
(* Reconciliation of declared environments (environment.yaml documents)    *)
(* with the remote platform's environment resources, as implemented in     *)
(* scripts/main.py: EnvironmentConfig and process_all_environments.        *)
(***************************************************************************)
EXTENDS Integers, Sequences, FiniteSets, TLC

(***************************************************************************)
(* Bounds of the model.                                                    *)
(***************************************************************************)
\* A program run starts only while every remote environment has fewer
\* revisions than this.
MaxRevisions == 3

\* A program run starts only while the platform lists fewer environments
\* than this.
MaxEnvironments == 2

(***************************************************************************)
(* Strings whose letter case matters.  A string is its letters (w, written *)
(* in lower case) and the pattern of its letter case (c).                  *)
(***************************************************************************)
Cases == {"lower", "upper", "title", "mixed"}

Str(w, c) == [w |-> w, c |-> c]

\* A literal of the source written Capitalised, such as "Organization".
Lit(w) == Str(w, "title")

\* str.title()
Title(s) == [s EXCEPT !.c = "title"]

\* str.upper()
Upper(s) == [s EXCEPT !.c = "upper"]

\* The empty string / a missing key: config.get(...) is falsy.
NoStr == Str("", "lower")

Truthy(s) == s.w # ""

(***************************************************************************)
(* organizationOwnerId values: the number of characters and whether all of *)
(* them are hexadecimal digits.                                            *)
(***************************************************************************)
OwnerIdLength == 24

NoOwner == [len |-> 0, hex |-> TRUE]

ValidOwner == [len |-> OwnerIdLength, hex |-> TRUE]

\* "not-hex"
NotHexOwner == [len |-> 7, hex |-> FALSE]

\* 23 hexadecimal characters
ShortOwner == [len |-> OwnerIdLength - 1, hex |-> TRUE]

OwnerPresent(o) == o.len > 0

\* re.search("^[0-9a-fA-F]{24}$", organization_owner_id)
OwnerIdMatches(o) == o.len = OwnerIdLength /\ o.hex

(***************************************************************************)
(* The documents (environment.yaml) of the model.                          *)
(***************************************************************************)
NameSeq == <<"", "a", "b">>

VisibilitySeq ==
  << NoStr,
     Str("global", "lower"), Str("private", "upper"),
     Str("organization", "lower"), Str("organization", "title"),
     Str("organisation", "lower"), Str("organisation", "upper"),
     Str("organisation", "title"), Str("bogus", "mixed") >>

OwnerSeq == << NoOwner, ValidOwner, NotHexOwner, ShortOwner >>

ImageSeq == << "img1", "img2" >>

\* Declared tag lists.  Tags are numbers: a declared tag is 0, the
\* fingerprints are the numbers from 1 (see compute_config_file_hash).
TagsSeq == << <<>>, <<0>> >>

ClustersSeq ==
  << <<>>,
     << Str("spark", "lower"), Str("bogus", "lower"), Str("ray", "upper") >>,
     << Str("dask", "title"), Str("dask", "lower") >>,
     << Str("mpi", "upper") >>,
     << Str("kubernetes", "lower") >> >>

BoolSeq == << FALSE, TRUE >>

Range(s) == { s[i] : i \in 1..Len(s) }

IndexOf(s, x) == CHOOSE i \in 1..Len(s) : s[i] = x

AllDocs ==
  [ name : Range(NameSeq),
    visibility : Range(VisibilitySeq),
    organizationOwnerId : Range(OwnerSeq),
    isRestricted : BOOLEAN,
    image : Range(ImageSeq),
    tags : Range(TagsSeq),
    supportedClusters : Range(ClustersSeq) ]

\* No environment.yaml in the directory.
NoFile == [ absent |-> TRUE ]

(***************************************************************************)
(* compute_config_file_hash: the SHA-256 digest of the document's bytes,   *)
(* modelled as an injective numbering of the documents (equal documents    *)
(* have equal digests, different documents different ones).                *)
(***************************************************************************)
compute_config_file_hash(config) ==
  LET n == IndexOf(NameSeq, config.name) - 1
      v == IndexOf(VisibilitySeq, config.visibility) - 1
      o == IndexOf(OwnerSeq, config.organizationOwnerId) - 1
      r == IndexOf(BoolSeq, config.isRestricted) - 1
      i == IndexOf(ImageSeq, config.image) - 1
      t == IndexOf(TagsSeq, config.tags) - 1
      c == IndexOf(ClustersSeq, config.supportedClusters) - 1
  IN  1 + n + Len(NameSeq) * (v + Len(VisibilitySeq) * (o + Len(OwnerSeq) *
          (r + Len(BoolSeq) * (i + Len(ImageSeq) * (t + Len(TagsSeq) * c)))))

(***************************************************************************)
(* EnvironmentConfig: the object's fields that the reconciliation reads.   *)
(* environment_id 0 is the empty string; selected_revision_id is the local *)
(* of restrict_environment_revision.                                       *)
(***************************************************************************)
\* EnvironmentConfig.__init__ with its defaults.
NewEnvironmentConfig ==
  [ environment_id |-> 0,
    name |-> "",
    base_image |-> "",
    visibility |-> Lit("private"),
    organization_owner_id |-> NoOwner,
    is_restricted |-> TRUE,
    tags |-> <<>>,
    supported_clusters |-> <<>>,
    config_file_hash |-> 0,
    selected_revision_id |-> 0 ]

possible_visibility_types == { Lit("global"), Lit("organization"), Lit("private") }

\* get_environment_visibility without line 109: a valid owner id leaves the
\* declared visibility in place.
get_environment_visibility_keeps_declared(self, config) ==
  LET titled == IF Truthy(config.visibility) THEN Title(config.visibility)
                ELSE Lit("private")
      vis == IF Upper(titled) = Lit("organisation") THEN Lit("organization")
             ELSE titled
  IN  IF vis = Lit("organization") /\ ~OwnerPresent(config.organizationOwnerId)
      THEN [self EXCEPT !.visibility = vis]
      ELSE IF OwnerPresent(config.organizationOwnerId)
              /\ ~OwnerIdMatches(config.organizationOwnerId)
      THEN [self EXCEPT !.visibility = vis,
                        !.organization_owner_id = config.organizationOwnerId]
      ELSE IF vis \notin possible_visibility_types
           THEN [self EXCEPT !.visibility = Lit("private"),
                             !.organization_owner_id = config.organizationOwnerId]
           ELSE [self EXCEPT !.visibility = vis,
                             !.organization_owner_id = config.organizationOwnerId]

\* get_environment_visibility: self after the call.
get_environment_visibility(self, config) ==
  LET titled == IF Truthy(config.visibility) THEN Title(config.visibility)
                ELSE Lit("private")
      vis == IF Upper(titled) = Lit("organisation") THEN Lit("organization")
             ELSE titled
  IN  IF vis = Lit("organization") /\ ~OwnerPresent(config.organizationOwnerId)
      THEN \* logger.error, return
           [self EXCEPT !.visibility = vis]
      ELSE IF OwnerPresent(config.organizationOwnerId)
      THEN IF ~OwnerIdMatches(config.organizationOwnerId)
           THEN \* logger.error, return
                [self EXCEPT !.visibility = vis,
                             !.organization_owner_id = config.organizationOwnerId]
           ELSE [self EXCEPT !.visibility = Lit("private"),
                             !.organization_owner_id = config.organizationOwnerId]
      ELSE IF vis \notin possible_visibility_types
           THEN [self EXCEPT !.visibility = Lit("private")]
           ELSE [self EXCEPT !.visibility = vis]

possible_cluster_types == { Lit("spark"), Lit("ray"), Lit("dask"), Lit("mpi") }

IsPossibleCluster(sc) == sc \in possible_cluster_types

\* get_supported_clusters without lines 124-128: invalid entries are kept.
get_supported_clusters_unfiltered(config) ==
  [ k \in 1..Len(config.supportedClusters) |->
      Title(config.supportedClusters[k]) ]

\* get_supported_clusters: the new value of self.supported_clusters.
get_supported_clusters(config) ==
  LET titled == [ k \in 1..Len(config.supportedClusters) |->
                    Title(config.supportedClusters[k]) ]
      invalid_values == SelectSeq(titled, LAMBDA sc : ~IsPossibleCluster(sc))
  IN  IF Len(titled) > 0 /\ Len(invalid_values) > 0
      THEN SelectSeq(titled, IsPossibleCluster)
      ELSE titled

\* parse_config_file without its last line: the hash is not appended.
parse_config_file_no_append(self, config) ==
  LET read == [self EXCEPT
                 !.name = config.name,
                 !.base_image = config.image,
                 !.tags = config.tags,
                 !.is_restricted = config.isRestricted,
                 !.organization_owner_id = config.organizationOwnerId]
      vis == get_environment_visibility(read, config)
      clu == [vis EXCEPT !.supported_clusters = get_supported_clusters(config)]
  IN  [clu EXCEPT !.config_file_hash = compute_config_file_hash(config)]

\* parse_config_file without line 205: is_restricted keeps the value that
\* __init__ gave it.
parse_config_file_default_restricted(self, config) ==
  LET read == [self EXCEPT
                 !.name = config.name,
                 !.base_image = config.image,
                 !.tags = config.tags,
                 !.organization_owner_id = config.organizationOwnerId]
      vis == get_environment_visibility(read, config)
      clu == [vis EXCEPT !.supported_clusters = get_supported_clusters(config)]
      hash == compute_config_file_hash(config)
  IN  [clu EXCEPT !.config_file_hash = hash,
                  !.tags = Append(clu.tags, hash)]

\* parse_config_file without line 202 on an object that already has tags:
\* the second call of the create path appends to the tags of the first.
parse_config_file_keeps_tags(self, config) ==
  LET read == [self EXCEPT
                 !.name = config.name,
                 !.base_image = config.image,
                 !.tags = IF self.tags = <<>> THEN config.tags ELSE self.tags,
                 !.is_restricted = config.isRestricted,
                 !.organization_owner_id = config.organizationOwnerId]
      vis == get_environment_visibility(read, config)
      clu == [vis EXCEPT !.supported_clusters = get_supported_clusters(config)]
      hash == compute_config_file_hash(config)
  IN  [clu EXCEPT !.config_file_hash = hash,
                  !.tags = Append(clu.tags, hash)]

\* parse_config_file: self after the call.
parse_config_file(self, config) ==
  LET read == [self EXCEPT
                 !.name = config.name,
                 !.base_image = config.image,
                 !.tags = config.tags,
                 !.is_restricted = config.isRestricted,
                 !.organization_owner_id = config.organizationOwnerId]
      vis == get_environment_visibility(read, config)
      clu == [vis EXCEPT !.supported_clusters = get_supported_clusters(config)]
      hash == compute_config_file_hash(config)
  IN  [clu EXCEPT !.config_file_hash = hash,
                  !.tags = Append(clu.tags, hash)]

(***************************************************************************)
(* The remote platform behind the gateway (the domino client).  remote is  *)
(* the platform's list of environments in listing order; an environment's  *)
(* id is its position.  Revisions are numbered 1..revisions; 0 stands for  *)
(* an absent selectedRevision / restrictedRevision.  restrictions counts   *)
(* the restrict calls the platform has applied to the environment (capped  *)
(* at 2).                                                                  *)
(***************************************************************************)
\* domino.environments_list()['data']
environments_list(rem) ==
  [ i \in 1..Len(rem) |-> [id |-> i, name |-> rem[i].name] ]

\* domino.get_environment(id) succeeds for the ids the platform knows.
KnownEnvironment(rem, id) == id \in 1..Len(rem)

\* domino.create_environment(name, ..., tags, ...)
PlatformCreateEnvironment(rem, name, tags) ==
  Append(rem, [ name |-> name,
                activeRevisionTags |-> Range(tags),
                revisions |-> 1,
                selectedRevision |-> 1,
                restrictedRevision |-> 0,
                restrictions |-> 0 ])

\* domino.create_environment_revision(environment_id, ..., tags, ...)
PlatformCreateRevision(rem, id, tags) ==
  [rem EXCEPT ![id] = [@ EXCEPT !.activeRevisionTags = Range(tags),
                                !.revisions = @ + 1,
                                !.selectedRevision = rem[id].revisions + 1]]

\* domino.restrict_environment_revision(environment_id, revision_id)
PlatformRestrictRevision(rem, id, rev) ==
  [rem EXCEPT ![id] = [@ EXCEPT !.restrictedRevision = rev,
                                !.restrictions = IF @ < 2 THEN @ + 1 ELSE @]]

(***************************************************************************)
(* State.                                                                  *)
(***************************************************************************)
Dirs == {"env1", "env2", "env3"}

VARIABLES
  file,       \* directory of target_directory -> its environment.yaml or NoFile
  remote,     \* the platform's environments
  exit_code,  \* "none" before the first run, "running", "0" after sys.exit(0)
  queue,      \* the directories the loop of process_all_environments has left
  pc,         \* directory -> position of its process_single_environment
  ec,         \* directory -> its EnvironmentConfig object
  calls,      \* directory -> the gateway calls of its current or last run
  seen,       \* directory -> the document its current or last run read
  hist,       \* directory -> document and terminal state of its run in the
              \* previous run of the program
  start       \* what the platform held when the running program started
              \* (batch) and when each directory's run started (env)

vars == <<file, remote, exit_code, queue, pc, ec, calls, seen, hist, start>>

NoStart == [ batch |-> <<>>, env |-> [d \in Dirs |-> <<>>] ]

\* Positions at which process_single_environment has returned.
Returned == {"idle", "skipped", "failed", "done"}

\* Positions whose next step is a gateway call.
AtGatewayCall ==
  {"exists", "create", "recheck", "latest", "revise",
   "restrict_get_288", "restrict_call_288", "restrict_get_355", "restrict_call_355"}

(***************************************************************************)
(* The log of gateway calls.                                               *)
(***************************************************************************)
NoPayload == [ name |-> "", visibility |-> NoStr, organization_owner_id |-> NoOwner,
               tags |-> <<>>, is_restricted |-> FALSE, base_image |-> "",
               supported_clusters |-> <<>> ]

PayloadOf(self) ==
  [ name |-> self.name, visibility |-> self.visibility,
    organization_owner_id |-> self.organization_owner_id,
    tags |-> self.tags, is_restricted |-> self.is_restricted,
    base_image |-> self.base_image,
    supported_clusters |-> self.supported_clusters ]

NoResult == [ activeRevisionTags |-> {}, selectedRevision |-> 0,
              restrictedRevision |-> 0 ]

\* What get_environment returns of an environment.
ResultOf(environment) ==
  [ activeRevisionTags |-> environment.activeRevisionTags,
    selectedRevision |-> environment.selectedRevision,
    restrictedRevision |-> environment.restrictedRevision ]

\* A call: the position of the program that makes it (at), its operation,
\* whether it returned (ok) or raised, the environment id it names (for
\* listEnvironments: the id the lookup by name found, 0 for none), the
\* revision id it names, the payload it carries and, for getEnvironment,
\* what it returned.
Call(at, op, ok, id, rev, payload, result) ==
  [ at |-> at, op |-> op, ok |-> ok, id |-> id, rev |-> rev,
    payload |-> payload, result |-> result ]

MutatingOps == {"createEnvironment", "createEnvironmentRevision",
                "restrictEnvironmentRevision", "archiveEnvironment"}

CallsOf(d, op) == { i \in 1..Len(calls[d]) : calls[d][i].op = op }

Issued(d, op) == CallsOf(d, op) # {}

\* The terminal state of the reconciliation (section 4.3 of the design).
Outcome(p, cs) ==
  LET has(op) == \E i \in 1..Len(cs) : cs[i].op = op /\ cs[i].ok
  IN  CASE p = "idle" -> "None"
        [] p = "skipped" -> "Skipped"
        [] p = "failed" -> "Failed"
        [] p = "done" /\ has("createEnvironment") /\ has("createEnvironmentRevision")
             -> "CreatedAndRevised"
        [] p = "done" /\ has("createEnvironment") -> "Created"
        [] p = "done" /\ has("createEnvironmentRevision") -> "Revised"
        [] p = "done" -> "NoOp"
        [] OTHER -> "Running"

\* check_environment_exists taking the first listed environment, whatever
\* its name.
check_environment_exists_any_name(self, rem) ==
  LET existing_environments == environments_list(rem)
  IN  IF Len(existing_environments) = 0 THEN self
      ELSE [self EXCEPT !.environment_id = existing_environments[1].id]

(***************************************************************************)
(* check_environment_exists: the id of the first listed environment with   *)
(* self's name, or self.environment_id unchanged when there is none.       *)
(***************************************************************************)
check_environment_exists(self, rem) ==
  LET existing_environments == environments_list(rem)
      matches == { i \in 1..Len(existing_environments) :
                     existing_environments[i].name = self.name }
  IN  IF matches = {} THEN self
      ELSE LET first == CHOOSE i \in matches : \A j \in matches : i <= j
           IN  [self EXCEPT !.environment_id = existing_environments[first].id]

\* get_latest_revision testing every tag of the declaration, not the hash
\* alone.
get_latest_revision_any_tag(self, rem) ==
  \E t \in Range(self.tags) : t \in rem[self.environment_id].activeRevisionTags

\* get_latest_revision with the membership test inverted.
get_latest_revision_inverted(self, rem) ==
  self.config_file_hash \notin rem[self.environment_id].activeRevisionTags

\* get_latest_revision: tag_match
get_latest_revision(self, rem) ==
  self.config_file_hash \in rem[self.environment_id].activeRevisionTags

\* The restrict decision without the test of the restriction marker.
ShouldRestrict_ignoring_marker(self, environment) ==
  /\ environment.selectedRevision # 0
  /\ self.is_restricted = TRUE

\* The restrict decision without the test of is_restricted.
ShouldRestrict_ignoring_is_restricted(self, environment) ==
  /\ environment.selectedRevision # 0
  /\ environment.restrictedRevision = 0

\* restrict_environment_revision: whether the restrict call is made.
ShouldRestrict(self, environment) ==
  /\ environment.selectedRevision # 0
  /\ environment.restrictedRevision = 0
  /\ self.is_restricted = TRUE

(***************************************************************************)
(* The gateway call that the step at position pc[d] makes.                 *)
(***************************************************************************)
\* create_environment_revision without its tags argument.
RevisionPayloadOf_no_tags(self) ==
  [NoPayload EXCEPT !.base_image = self.base_image,
                    !.supported_clusters = self.supported_clusters]

\* The fields create_environment_revision passes (no name, visibility,
\* owner id or is_restricted).
RevisionPayloadOf(self) ==
  [NoPayload EXCEPT !.tags = self.tags, !.base_image = self.base_image,
                    !.supported_clusters = self.supported_clusters]

NextCall(d, ok) ==
  CASE pc[d] \in {"exists", "recheck"} ->
         Call(pc[d], "listEnvironments", ok,
              IF ok THEN check_environment_exists(ec[d], remote).environment_id ELSE 0,
              0, NoPayload, NoResult)
    [] pc[d] = "create" ->
         Call(pc[d], "createEnvironment", ok, 0, 0,
              PayloadOf(parse_config_file(ec[d], file[d])), NoResult)
    [] pc[d] \in {"latest", "restrict_get_288", "restrict_get_355"} ->
         Call(pc[d], "getEnvironment", ok, ec[d].environment_id, 0, NoPayload,
              IF ok THEN ResultOf(remote[ec[d].environment_id]) ELSE NoResult)
    [] pc[d] = "revise" ->
         Call(pc[d], "createEnvironmentRevision", ok, ec[d].environment_id, 0,
              RevisionPayloadOf(ec[d]), NoResult)
    [] pc[d] \in {"restrict_call_288", "restrict_call_355"} ->
         Call(pc[d], "restrictEnvironmentRevision", ok, ec[d].environment_id,
              ec[d].selected_revision_id, NoPayload, NoResult)

Log(d, ok) == calls' = [calls EXCEPT ![d] = Append(@, NextCall(d, ok))]

Goto(d, p) == pc' = [pc EXCEPT ![d] = p]

(***************************************************************************)
(* process_all_environments                                                *)
(***************************************************************************)
Orders(S) ==
  { q \in [1..Cardinality(S) -> S] : \A i, j \in 1..Cardinality(S) : q[i] = q[j] => i = j }

\* The program starts: os.listdir(target_directory), in any order.
StartProgram ==
  /\ exit_code # "running"
  /\ Len(remote) <= MaxEnvironments
  /\ \A i \in 1..Len(remote) : remote[i].revisions <= MaxRevisions
  /\ IF DOMAIN file = {}
     THEN exit_code' = "1" /\ queue' = <<>>
     ELSE exit_code' = "running" /\ queue' \in Orders(DOMAIN file)
  /\ start' = [NoStart EXCEPT !.batch = remote]
  /\ UNCHANGED <<file, remote, pc, ec, calls, seen, hist>>

\* process_single_environment up to ec.parse_config_file(), for the next
\* directory of the loop.
BeginEnvironment(d) ==
  /\ exit_code = "running"
  /\ queue # <<>> /\ Head(queue) = d
  /\ \A e \in Dirs : pc[e] \in Returned
  /\ queue' = Tail(queue)
  /\ seen' = [seen EXCEPT ![d] = file[d]]
  /\ calls' = [calls EXCEPT ![d] = <<>>]
  /\ IF file[d] = NoFile
     THEN /\ Goto(d, "skipped")
          /\ ec' = [ec EXCEPT ![d] = NewEnvironmentConfig]
     ELSE /\ Goto(d, "exists")
          /\ ec' = [ec EXCEPT ![d] = parse_config_file(NewEnvironmentConfig, file[d])]
  /\ start' = [start EXCEPT !.env[d] = remote]
  /\ UNCHANGED <<file, remote, exit_code, hist>>

\* process_single_environment started by a worker of a pool: as
\* BeginEnvironment, without waiting for the runs of the other directories
\* to return.
Submit(d) ==
  /\ exit_code = "running"
  /\ queue # <<>> /\ Head(queue) = d
  /\ queue' = Tail(queue)
  /\ seen' = [seen EXCEPT ![d] = file[d]]
  /\ calls' = [calls EXCEPT ![d] = <<>>]
  /\ IF file[d] = NoFile
     THEN /\ Goto(d, "skipped")
          /\ ec' = [ec EXCEPT ![d] = NewEnvironmentConfig]
     ELSE /\ Goto(d, "exists")
          /\ ec' = [ec EXCEPT ![d] = parse_config_file(NewEnvironmentConfig, file[d])]
  /\ start' = [start EXCEPT !.env[d] = remote]
  /\ UNCHANGED <<file, remote, exit_code, hist>>

\* sys.exit(0) after the loop: the process and its objects are gone; hist
\* keeps, for every directory, the document and the terminal state of the
\* run that has ended.
Exit ==
  /\ exit_code = "running"
  /\ queue = <<>>
  /\ \A e \in Dirs : pc[e] \in Returned
  /\ exit_code' = "0"
  /\ hist' = [d \in Dirs |-> [doc |-> seen[d], outcome |-> Outcome(pc[d], calls[d])]]
  /\ pc' = [d \in Dirs |-> "idle"]
  /\ ec' = [d \in Dirs |-> NewEnvironmentConfig]
  /\ calls' = [d \in Dirs |-> <<>>]
  /\ seen' = [d \in Dirs |-> NoFile]
  /\ start' = NoStart
  /\ UNCHANGED <<file, remote, queue>>

(***************************************************************************)
(* The steps of process_single_environment after parsing.                  *)
(***************************************************************************)
\* create_environment_if_not_exist up to its branch on self.environment_id.
CreateEnvironmentIfNotExist(d) ==
  /\ pc[d] = "exists"
  /\ IF ec[d].name = ""
     THEN \* logger.error, return False: the caller goes on
          /\ Goto(d, "latest")
          /\ UNCHANGED <<ec, calls>>
     ELSE /\ Log(d, TRUE)
          /\ ec' = [ec EXCEPT ![d] = check_environment_exists(@, remote)]
          /\ Goto(d, IF ec'[d].environment_id # 0 THEN "latest" ELSE "create")
  /\ UNCHANGED <<file, remote, exit_code, queue, seen, hist, start>>

\* create_environment: parse_config_file and domino.create_environment.
CreateEnvironment(d) ==
  /\ pc[d] = "create"
  /\ LET self == parse_config_file(ec[d], file[d])
     IN  /\ ec' = [ec EXCEPT ![d] = self]
         /\ remote' = PlatformCreateEnvironment(remote, self.name, self.tags)
  /\ Log(d, TRUE)
  /\ Goto(d, "recheck")
  /\ UNCHANGED <<file, exit_code, queue, seen, hist, start>>

\* create_environment: the final self.check_environment_exists().
RecheckEnvironment(d) ==
  /\ pc[d] = "recheck"
  /\ Log(d, TRUE)
  /\ ec' = [ec EXCEPT ![d] = check_environment_exists(@, remote)]
  /\ Goto(d, "latest")
  /\ UNCHANGED <<file, remote, exit_code, queue, seen, hist, start>>

\* create_environment_revision: get_latest_revision and the branch on it.
\* get_environment of an id the platform does not know raises.
GetLatestRevision(d) ==
  /\ pc[d] = "latest"
  /\ IF KnownEnvironment(remote, ec[d].environment_id)
     THEN /\ Log(d, TRUE)
          /\ Goto(d, IF get_latest_revision(ec[d], remote)
                     THEN "restrict_get_355" ELSE "revise")
     ELSE /\ Log(d, FALSE)
          /\ Goto(d, "failed")
  /\ UNCHANGED <<file, remote, exit_code, queue, ec, seen, hist, start>>

\* create_environment_revision: domino.create_environment_revision.
CreateEnvironmentRevision(d) ==
  /\ pc[d] = "revise"
  /\ Log(d, TRUE)
  /\ remote' = PlatformCreateRevision(remote, ec[d].environment_id, ec[d].tags)
  /\ Goto(d, "restrict_get_288")
  /\ UNCHANGED <<file, exit_code, queue, ec, seen, hist, start>>

\* Where restrict_environment_revision returns to: called at line 288 it
\* returns to the call at line 355, called at line 355 the run is over.
AfterRestrict(at) == IF at = "288" THEN "restrict_get_355" ELSE "done"

\* restrict_environment_revision: get_environment and the decision.
RestrictGet(d, at) ==
  /\ pc[d] = "restrict_get_" \o at
  /\ Log(d, TRUE)
  /\ LET environment == remote[ec[d].environment_id]
     IN  IF ShouldRestrict(ec[d], environment)
         THEN /\ ec' = [ec EXCEPT ![d].selected_revision_id = environment.selectedRevision]
              /\ Goto(d, "restrict_call_" \o at)
         ELSE /\ ec' = ec
              /\ Goto(d, AfterRestrict(at))
  /\ UNCHANGED <<file, remote, exit_code, queue, seen, hist, start>>

\* restrict_environment_revision: domino.restrict_environment_revision.
RestrictCall(d, at) ==
  /\ pc[d] = "restrict_call_" \o at
  /\ Log(d, TRUE)
  /\ remote' = PlatformRestrictRevision(remote, ec[d].environment_id,
                                        ec[d].selected_revision_id)
  /\ Goto(d, AfterRestrict(at))
  /\ UNCHANGED <<file, exit_code, queue, ec, seen, hist, start>>

\* A gateway call raises and nothing catches it: the loop of
\* process_all_environments is left with the directories it had not reached.
GatewayError_aborts_batch(d) ==
  /\ pc[d] \in AtGatewayCall
  /\ pc[d] = "exists" => ec[d].name # ""
  /\ Log(d, FALSE)
  /\ Goto(d, "failed")
  /\ queue' = <<>>
  /\ UNCHANGED <<file, remote, exit_code, ec, seen, hist, start>>

\* A gateway call raises (network, auth, server-side rejection) without
\* effect on the platform: process_single_environment logs and returns.
GatewayError(d) ==
  /\ pc[d] \in AtGatewayCall
  /\ pc[d] = "exists" => ec[d].name # ""
  /\ Log(d, FALSE)
  /\ Goto(d, "failed")
  /\ UNCHANGED <<file, remote, exit_code, queue, ec, seen, hist, start>>

\* One step of process_single_environment for directory d.
Step(d) ==
  \/ CreateEnvironmentIfNotExist(d)
  \/ CreateEnvironment(d)
  \/ RecheckEnvironment(d)
  \/ GetLatestRevision(d)
  \/ CreateEnvironmentRevision(d)
  \/ RestrictGet(d, "288")
  \/ RestrictCall(d, "288")
  \/ RestrictGet(d, "355")
  \/ RestrictCall(d, "355")
  \/ GatewayError(d)

(***************************************************************************)
(* Between two runs of the program the documents are edited.               *)
(***************************************************************************)
EditFile(d, doc) ==
  /\ exit_code # "running"
  /\ d \in DOMAIN file
  /\ doc # file[d]
  /\ \A i \in 1..Len(remote) : remote[i].revisions < MaxRevisions
  /\ file' = [file EXCEPT ![d] = doc]
  /\ UNCHANGED <<remote, exit_code, queue, pc, ec, calls, seen, hist, start>>

(***************************************************************************)
(* Specifications.                                                         *)
(***************************************************************************)
\* Environments that exist on the platform before the program's first run,
\* made by other means: no fingerprint among their tags.
PreExisting ==
  [ name : {"a", "b"}, activeRevisionTags : {{}}, revisions : {1},
    selectedRevision : {0, 1}, restrictedRevision : {0, 1}, restrictions : {0} ]

RemoteInit == { <<>> } \cup { <<e>> : e \in PreExisting }

InitWith(listing, docs) ==
  /\ file \in [listing -> docs]
  /\ remote \in RemoteInit
  /\ exit_code = "none"
  /\ queue = <<>>
  /\ pc = [d \in Dirs |-> "idle"]
  /\ ec = [d \in Dirs |-> NewEnvironmentConfig]
  /\ calls = [d \in Dirs |-> <<>>]
  /\ seen = [d \in Dirs |-> NoFile]
  /\ hist = [d \in Dirs |-> [doc |-> NoFile, outcome |-> "None"]]
  /\ start = NoStart

\* Spec: one declared environment, reconciled by run after run of the
\* program, its document edited between runs.
DocsRecon ==
  { doc \in AllDocs : /\ doc.name \in {"", "a"}
                      /\ doc.visibility = NoStr
                      /\ doc.organizationOwnerId = NoOwner
                      /\ doc.image = "img1"
                      /\ doc.supportedClusters = <<>> }

Init == InitWith({"env1"}, DocsRecon \cup {NoFile})

Next ==
  \/ StartProgram
  \/ \E d \in Dirs : BeginEnvironment(d)
  \/ \E d \in Dirs : Step(d)
  \/ Exit
  \/ \E d \in Dirs, doc \in DocsRecon \cup {NoFile} : EditFile(d, doc)

Spec == Init /\ [][Next]_vars

\* SpecVisibility: one declared environment with every visibility and owner
\* id of the model, reconciled by run after run of the program.
DocsVisibility ==
  { doc \in AllDocs : /\ doc.name = "a"
                      /\ doc.isRestricted
                      /\ doc.image = "img1"
                      /\ doc.tags = <<>>
                      /\ doc.supportedClusters = <<>> }

InitVisibility == InitWith({"env1"}, DocsVisibility)

NextVisibility ==
  \/ StartProgram
  \/ \E d \in Dirs : BeginEnvironment(d)
  \/ \E d \in Dirs : Step(d)
  \/ Exit

SpecVisibility == InitVisibility /\ [][NextVisibility]_vars

\* SpecClusters: one declared environment with every supportedClusters list
\* of the model, reconciled by run after run of the program.
DocsClusters ==
  { doc \in AllDocs : /\ doc.name = "a"
                      /\ doc.visibility = NoStr
                      /\ doc.organizationOwnerId = NoOwner
                      /\ doc.image = "img1"
                      /\ doc.tags = <<>> }

InitClusters == InitWith({"env1"}, DocsClusters)

NextClusters ==
  \/ StartProgram
  \/ \E d \in Dirs : BeginEnvironment(d)
  \/ \E d \in Dirs : Step(d)
  \/ Exit

SpecClusters == InitClusters /\ [][NextClusters]_vars

\* SpecBatch: three declared environments, with names that may coincide or
\* be missing, reconciled one after the other by one run of the program.
DocsBatch ==
  { doc \in AllDocs : /\ doc.name \in {"", "a", "b"}
                      /\ doc.visibility = NoStr
                      /\ doc.organizationOwnerId = NoOwner
                      /\ doc.isRestricted
                      /\ doc.image = "img1"
                      /\ doc.tags = <<>>
                      /\ doc.supportedClusters = <<>> }

\* The platform before a batch: empty, or holding an unrestricted
\* environment a made by other means.
RemoteBatch ==
  { rem \in RemoteInit :
      \A i \in 1..Len(rem) : /\ rem[i].name = "a"
                             /\ rem[i].selectedRevision # 0
                             /\ rem[i].restrictedRevision = 0 }

InitBatch ==
  /\ InitWith({"env1", "env2", "env3"}, DocsBatch)
  /\ remote \in RemoteBatch

NextBatch ==
  \/ exit_code = "none" /\ StartProgram
  \/ \E d \in Dirs : BeginEnvironment(d)
  \/ \E d \in Dirs : Step(d)
  \/ Exit

SpecBatch == InitBatch /\ [][NextBatch]_vars

\* SpecInterleaved: two declared environments reconciled by a pool of
\* workers in one run of the program, their steps interleaved in every way
\* (one after the other included).
InitInterleaved == InitWith({"env1", "env2"}, DocsBatch)

NextInterleaved ==
  \/ exit_code = "none" /\ StartProgram
  \/ \E d \in Dirs : Submit(d)
  \/ \E d \in Dirs : Step(d)
  \/ Exit

SpecInterleaved == InitInterleaved /\ [][NextInterleaved]_vars

(***************************************************************************)
(* Properties.                                                             *)
(***************************************************************************)
Count(d, op) == Cardinality(CallsOf(d, op))

RestrictPositions ==
  {"restrict_get_288", "restrict_call_288", "restrict_get_355", "restrict_call_355"}

\* The fingerprint of the document that directory d's run read.
HashOf(d) == compute_config_file_hash(seen[d])

NoMutatingCall(d) == \A k \in 1..Len(calls[d]) : calls[d][k].op \notin MutatingOps

\* The existence lookup of d's run found the environment.
LookupMatched(d) ==
  /\ Len(calls[d]) >= 1
  /\ calls[d][1].op = "listEnvironments" /\ calls[d][1].ok
  /\ calls[d][1].id # 0

\* The existence lookup of d's run found no environment of the name.
LookupUnmatched(d) ==
  /\ Len(calls[d]) >= 1
  /\ calls[d][1].op = "listEnvironments" /\ calls[d][1].ok
  /\ calls[d][1].id = 0

\* The environment existed and the tag check of d's run read the fingerprint
\* among its activeRevisionTags (tagged TRUE) or did not (tagged FALSE).
ExistingWithTag(d, tagged) ==
  /\ LookupMatched(d)
  /\ Len(calls[d]) >= 2
  /\ calls[d][2].at = "latest" /\ calls[d][2].ok
  /\ (HashOf(d) \in calls[d][2].result.activeRevisionTags) = tagged

\* The restrict decision of the enforcer whose get_environment is call k.
DecisionAt(d, k) ==
  /\ seen[d].isRestricted
  /\ calls[d][k].result.selectedRevision # 0
  /\ calls[d][k].result.restrictedRevision = 0

OkOutcomes == {"Created", "Revised", "NoOp"}

\* C1: a run that completes ends in Created (one createEnvironment), Revised
\* (one createEnvironmentRevision) or NoOp, never both creating and revising;
\* and when the previous run of the program completed on the same document
\* (nothing else changes the remote in between), this run ends in NoOp and
\* issues no createEnvironment, createEnvironmentRevision or
\* restrictEnvironmentRevision call.
C1_Idempotence ==
  \A d \in Dirs :
    pc[d] = "done" =>
      /\ Outcome(pc[d], calls[d]) \in OkOutcomes
      /\ Count(d, "createEnvironment") + Count(d, "createEnvironmentRevision") <= 1
      /\ (hist[d].doc = seen[d] /\ hist[d].outcome \in OkOutcomes)
           => /\ Outcome(pc[d], calls[d]) = "NoOp"
              /\ NoMutatingCall(d)

\* A second run on the unchanged, restricted document after a run that
\* created the environment.
C1_Witness ==
  \E d \in Dirs :
    /\ pc[d] = "done" /\ hist[d].doc = seen[d] /\ hist[d].outcome = "Created"
    /\ seen[d].isRestricted
    /\ Outcome(pc[d], calls[d]) = "NoOp"

C3_RevisePath ==
  \A d \in Dirs :
    pc[d] = "done" /\ ExistingWithTag(d, FALSE) =>
      /\ Count(d, "createEnvironmentRevision") = 1
      /\ \A k \in CallsOf(d, "createEnvironmentRevision") :
           /\ calls[d][k].id = calls[d][1].id
           /\ HashOf(d) \in Range(calls[d][k].payload.tags)
           /\ \A i \in 1..(k - 1) : calls[d][i].at \notin RestrictPositions
           /\ k < Len(calls[d])
           /\ calls[d][k + 1].op = "getEnvironment"
           /\ calls[d][k + 1].at \in RestrictPositions
           /\ \A i \in CallsOf(d, "restrictEnvironmentRevision") : i > k + 1

\* A completed revise run.
C3_Witness ==
  \E d \in Dirs :
    /\ pc[d] = "done" /\ ExistingWithTag(d, FALSE)
    /\ Issued(d, "createEnvironmentRevision")

\* C4: a run whose existence lookup finds no environment of the name issues
\* exactly one createEnvironment call, carrying the declaration, then a
\* listEnvironments call that records the id of the environment of that
\* name; the enforcer's restrict call comes after these, and it is issued
\* exactly when isRestricted is true, the remote has a selected revision and
\* no restriction marker.
C4_CreatePath ==
  \A d \in Dirs :
    pc[d] = "done" /\ LookupUnmatched(d) =>
      /\ Count(d, "createEnvironment") = 1
      /\ Len(calls[d]) >= 5
      /\ calls[d][2].op = "createEnvironment"
      /\ calls[d][2].payload.name = seen[d].name
      /\ calls[d][2].payload.base_image = seen[d].image
      /\ calls[d][2].payload.is_restricted = seen[d].isRestricted
      /\ calls[d][2].payload.tags = Append(seen[d].tags, HashOf(d))
      /\ calls[d][3].op = "listEnvironments"
      /\ calls[d][3].id # 0
      /\ calls[d][3].id = ec[d].environment_id
      /\ remote[calls[d][3].id].name = seen[d].name
      /\ \A k \in CallsOf(d, "restrictEnvironmentRevision") : k > 3
      /\ \E k \in 4..Len(calls[d]) :
           /\ calls[d][k].at \in {"restrict_get_288", "restrict_get_355"}
           /\ Issued(d, "restrictEnvironmentRevision") <=> DecisionAt(d, k)
      /\ Issued(d, "restrictEnvironmentRevision") <=> seen[d].isRestricted

\* A run that created the environment and restricted it.
C4_Witness ==
  \E d \in Dirs :
    /\ pc[d] = "done" /\ LookupUnmatched(d)
    /\ Issued(d, "restrictEnvironmentRevision")

C6_RestrictionLockOneWay ==
  \A d \in Dirs :
    /\ \A k \in CallsOf(d, "restrictEnvironmentRevision") :
         /\ k > 1
         /\ calls[d][k - 1].result.restrictedRevision = 0
         /\ seen[d].isRestricted
    /\ \A k \in 1..Len(calls[d]) :
         ( /\ calls[d][k].at \in {"restrict_get_288", "restrict_get_355"}
           /\ calls[d][k].ok
           /\ (calls[d][k].result.restrictedRevision # 0 \/ ~seen[d].isRestricted) )
         => \A i \in k..Len(calls[d]) : calls[d][i].op # "restrictEnvironmentRevision"
    /\ pc[d] \in {"restrict_call_288", "restrict_call_355"} =>
         /\ remote[ec[d].environment_id].restrictedRevision = 0
         /\ seen[d].isRestricted

\* The enforcer ran twice in a run on an environment that has a marker and a
\* declaration with isRestricted true, and issued no restrict call.
C6_Witness ==
  \E d \in Dirs :
    /\ pc[d] = "done" /\ seen[d].isRestricted
    /\ \E k \in 1..Len(calls[d]) :
         /\ calls[d][k].at = "restrict_get_288"
         /\ calls[d][k].result.restrictedRevision # 0
    /\ ~Issued(d, "restrictEnvironmentRevision")

\* Directory d's run has read a document.
HasRead(d) == pc[d] \notin {"idle", "skipped"}

\* C7: a declaration whose organizationOwnerId is present and is not 24
\* hexadecimal characters ends its run in Failed, and the run issues no
\* gateway call.
C7_MalformedOwnerRejected ==
  \A d \in Dirs :
    ( /\ HasRead(d)
      /\ OwnerPresent(seen[d].organizationOwnerId)
      /\ ~OwnerIdMatches(seen[d].organizationOwnerId) )
    => /\ calls[d] = <<>>
       /\ pc[d] # "done"

\* C8: when the visibility resolves to Organization and the declaration has
\* no organizationOwnerId the run makes no gateway call, and no create or
\* revision call carries visibility Organization with an empty owner id.
C8_OrganizationWithoutOwnerRejected ==
  \A d \in Dirs :
    /\ ( /\ HasRead(d)
         /\ ec[d].visibility = Lit("organization")
         /\ ~OwnerPresent(seen[d].organizationOwnerId) )
       => calls[d] = <<>>
    /\ \A k \in 1..Len(calls[d]) :
         calls[d][k].op \in {"createEnvironment", "createEnvironmentRevision"}
         => ~ ( /\ calls[d][k].payload.visibility = Lit("organization")
                /\ ~OwnerPresent(calls[d][k].payload.organization_owner_id) )

\* C9: the visibility that a createEnvironment call carries is Global,
\* Organization or Private.
C9_VisibilityAllowed ==
  \A d \in Dirs : \A k \in CallsOf(d, "createEnvironment") :
    calls[d][k].payload.visibility \in possible_visibility_types

\* C10: a declaration whose visibility is "organisation" in any letter case
\* resolves as the same declaration with "organization" does, and without a
\* valid organizationOwnerId it is not resolved to Private.
C10_OrganisationNormalized ==
  \A d \in Dirs :
    HasRead(d) /\ seen[d].visibility.w = "organisation" =>
      LET twin == [seen[d] EXCEPT !.visibility.w = "organization"]
      IN  /\ ec[d].visibility = parse_config_file(NewEnvironmentConfig, twin).visibility
          /\ ~OwnerIdMatches(seen[d].organizationOwnerId)
               => ec[d].visibility # Lit("private")

\* C11: when organizationOwnerId is present and is 24 hexadecimal
\* characters, the resolved visibility is Private whatever visibility is
\* declared, and the owner id is kept: in the object and in the payload of
\* every createEnvironment call.
C11_ValidOwnerForcesPrivate ==
  \A d \in Dirs :
    HasRead(d) /\ OwnerIdMatches(seen[d].organizationOwnerId) =>
      /\ ec[d].visibility = Lit("private")
      /\ ec[d].organization_owner_id = seen[d].organizationOwnerId
      /\ \A k \in CallsOf(d, "createEnvironment") :
           /\ calls[d][k].payload.visibility = Lit("private")
           /\ calls[d][k].payload.organization_owner_id = seen[d].organizationOwnerId

\* A declaration with visibility organization and a valid owner id has
\* created its environment.
C11_Witness ==
  \E d \in Dirs :
    /\ pc[d] = "done"
    /\ seen[d].visibility = Str("organization", "lower")
    /\ seen[d].organizationOwnerId = ValidOwner
    /\ Issued(d, "createEnvironment")

\* The entries of a declared supportedClusters list that are, once put in
\* title case, one of Spark, Ray, Dask, Mpi: in declared order, duplicates kept.
RECURSIVE RecognisedClusters(_)
RecognisedClusters(declared) ==
  IF declared = <<>> THEN <<>>
  ELSE LET sc == Title(Head(declared))
       IN  (IF sc \in { Lit("spark"), Lit("ray"), Lit("dask"), Lit("mpi") }
            THEN <<sc>> ELSE <<>>) \o RecognisedClusters(Tail(declared))

\* C12: the resolved supportedClusters list is the declared entries that are
\* Spark, Ray, Dask or Mpi once title-cased, in declared order with
\* duplicates kept ([spark, bogus, RAY] gives [Spark, Ray]); it is what every
\* createEnvironment and createEnvironmentRevision payload carries; and a run
\* fails only at a gateway call, never because of an invalid entry.
C12_ClustersFiltered ==
  \A d \in Dirs :
    HasRead(d) =>
      /\ ec[d].supported_clusters = RecognisedClusters(seen[d].supportedClusters)
      /\ seen[d].supportedClusters = ClustersSeq[2]
           => ec[d].supported_clusters = << Lit("spark"), Lit("ray") >>
      /\ seen[d].supportedClusters = ClustersSeq[3]
           => ec[d].supported_clusters = << Lit("dask"), Lit("dask") >>
      /\ \A k \in CallsOf(d, "createEnvironment") \cup CallsOf(d, "createEnvironmentRevision") :
           calls[d][k].payload.supported_clusters
             = RecognisedClusters(seen[d].supportedClusters)
      /\ pc[d] = "failed" =>
           Len(calls[d]) >= 1 /\ ~calls[d][Len(calls[d])].ok

\* The declaration [spark, bogus, RAY] has completed its run and created its
\* environment with [Spark, Ray].
C12_Witness ==
  \E d \in Dirs :
    /\ pc[d] = "done"
    /\ seen[d].supportedClusters = ClustersSeq[2]
    /\ \E k \in CallsOf(d, "createEnvironment") :
         calls[d][k].ok /\ calls[d][k].payload.supported_clusters = << Lit("spark"), Lit("ray") >>

RemoteOnlyGrows ==
  /\ Len(remote') >= Len(remote)
  /\ \A i \in 1..Len(remote) :
       /\ remote'[i].name = remote[i].name
       /\ remote'[i].revisions >= remote[i].revisions
       /\ remote[i].restrictedRevision # 0
            => remote'[i].restrictedRevision = remote[i].restrictedRevision

\* A change of the remote state is the effect of one successful
\* createEnvironment, createEnvironmentRevision or
\* restrictEnvironmentRevision call.
RemoteChangedByAppend ==
  remote' # remote =>
    \E d \in Dirs :
      /\ Len(calls'[d]) = Len(calls[d]) + 1
      /\ calls'[d][Len(calls'[d])].ok
      /\ calls'[d][Len(calls'[d])].op \in
           {"createEnvironment", "createEnvironmentRevision", "restrictEnvironmentRevision"}

\* C15: no step of the program issues archiveEnvironment; no step removes an
\* environment, removes a revision or changes an existing restriction
\* marker; the remote state changes only by a create, add-revision or
\* set-restriction call.
C15_ReadsAndAppendsOnly ==
  [][ /\ \A d \in Dirs : \A k \in 1..Len(calls'[d]) :
           calls'[d][k].op # "archiveEnvironment"
      /\ RemoteOnlyGrows
      /\ RemoteChangedByAppend ]_vars

\* A restricted declaration has revised an environment whose restriction
\* marker is on an older revision.
C15_Witness ==
  \E d \in Dirs :
    /\ pc[d] = "done" /\ seen[d].isRestricted
    /\ \E k \in CallsOf(d, "createEnvironmentRevision") : calls[d][k].ok
    /\ remote[ec[d].environment_id].restrictedRevision # 0
    /\ remote[ec[d].environment_id].restrictedRevision
         < remote[ec[d].environment_id].selectedRevision

\* C17: every createEnvironment, getEnvironment, createEnvironmentRevision
\* and restrictEnvironmentRevision call of a run comes after a listEnvironments
\* call of the run that succeeded, and every restrictEnvironmentRevision call
\* comes after the getEnvironment of get_latest_revision (the create-or-revise
\* decision).
C17_StepOrdering ==
  \A d \in Dirs : \A k \in 1..Len(calls[d]) :
    /\ calls[d][k].op \in {"createEnvironment", "getEnvironment",
                           "createEnvironmentRevision", "restrictEnvironmentRevision"}
         => \E i \in 1..(k - 1) : calls[d][i].op = "listEnvironments" /\ calls[d][i].ok
    /\ calls[d][k].op = "restrictEnvironmentRevision"
         => \E i \in 1..(k - 1) : calls[d][i].at = "latest" /\ calls[d][i].ok

\* C18: the tags of every createEnvironment and createEnvironmentRevision
\* call are the declared tags followed by the fingerprint of the document,
\* and the fingerprint is in them once.
C18_HashOnceAndLast ==
  \A d \in Dirs :
    \A k \in CallsOf(d, "createEnvironment") \cup CallsOf(d, "createEnvironmentRevision") :
      LET tags == calls[d][k].payload.tags
      IN  /\ tags = Append(seen[d].tags, HashOf(d))
          /\ tags[Len(tags)] = HashOf(d)
          /\ Cardinality({ i \in 1..Len(tags) : tags[i] = HashOf(d) }) = 1

\* A declaration with a declared tag has created its environment (after the
\* second parse_config_file, of create_environment).
C18_Witness ==
  \E d \in Dirs :
    /\ pc[d] = "done" /\ seen[d].tags # <<>>
    /\ \E k \in CallsOf(d, "createEnvironment") : calls[d][k].ok

\* C19: a run whose createEnvironment call succeeded issues no
\* createEnvironmentRevision call and, when it completes, ends in Created;
\* no run issues more than one of the two calls.
C19_CreateDoesNotRevise ==
  \A d \in Dirs :
    /\ Count(d, "createEnvironment") + Count(d, "createEnvironmentRevision") <= 1
    /\ (\E k \in CallsOf(d, "createEnvironment") : calls[d][k].ok) =>
         /\ ~Issued(d, "createEnvironmentRevision")
         /\ pc[d] # "revise"
         /\ pc[d] = "done" => Outcome(pc[d], calls[d]) = "Created"

\* A run whose lookup found nothing has created the environment and gone
\* through get_latest_revision to its end.
C19_Witness ==
  \E d \in Dirs :
    /\ pc[d] = "done" /\ LookupUnmatched(d)
    /\ \E k \in CallsOf(d, "createEnvironment") : calls[d][k].ok
    /\ \E k \in 1..Len(calls[d]) : calls[d][k].at = "latest" /\ calls[d][k].ok

\* C20: the run of a declaration without a name issues no gateway call, and
\* no getEnvironment, createEnvironmentRevision or
\* restrictEnvironmentRevision call is made with an empty environment id.
C20_NamelessMakesNoCall ==
  \A d \in Dirs :
    /\ HasRead(d) /\ seen[d].name = "" => calls[d] = <<>>
    /\ \A k \in 1..Len(calls[d]) :
         calls[d][k].op \in {"getEnvironment", "createEnvironmentRevision",
                             "restrictEnvironmentRevision"}
           => calls[d][k].id # 0

(***************************************************************************)
(* process_single_environment run alone: on a platform that holds rem, by  *)
(* itself and with no gateway call raising except get_environment of an id *)
(* the platform does not know.  A run is [self, rem, calls, pc].           *)
(***************************************************************************)
AloneLog(r, call) == [r EXCEPT !.calls = Append(@, call)]

AloneGet(r) ==
  Call(r.pc, "getEnvironment", TRUE, r.self.environment_id, 0, NoPayload,
       ResultOf(r.rem[r.self.environment_id]))

AloneStep(r, doc) ==
  CASE r.pc = "exists" ->
         IF r.self.name = "" THEN [r EXCEPT !.pc = "latest"]
         ELSE LET self == check_environment_exists(r.self, r.rem)
              IN  [AloneLog(r, Call(r.pc, "listEnvironments", TRUE,
                                    self.environment_id, 0, NoPayload, NoResult))
                     EXCEPT !.self = self,
                            !.pc = IF self.environment_id # 0 THEN "latest" ELSE "create"]
    [] r.pc = "create" ->
         LET self == parse_config_file(r.self, doc)
         IN  [AloneLog(r, Call(r.pc, "createEnvironment", TRUE, 0, 0,
                               PayloadOf(self), NoResult))
                EXCEPT !.self = self,
                       !.rem = PlatformCreateEnvironment(r.rem, self.name, self.tags),
                       !.pc = "recheck"]
    [] r.pc = "recheck" ->
         LET self == check_environment_exists(r.self, r.rem)
         IN  [AloneLog(r, Call(r.pc, "listEnvironments", TRUE,
                               self.environment_id, 0, NoPayload, NoResult))
                EXCEPT !.self = self, !.pc = "latest"]
    [] r.pc = "latest" ->
         IF KnownEnvironment(r.rem, r.self.environment_id)
         THEN [AloneLog(r, AloneGet(r))
                 EXCEPT !.pc = IF get_latest_revision(r.self, r.rem)
                               THEN "restrict_get_355" ELSE "revise"]
         ELSE [AloneLog(r, Call(r.pc, "getEnvironment", FALSE, r.self.environment_id,
                                0, NoPayload, NoResult))
                 EXCEPT !.pc = "failed"]
    [] r.pc = "revise" ->
         [AloneLog(r, Call(r.pc, "createEnvironmentRevision", TRUE,
                           r.self.environment_id, 0, RevisionPayloadOf(r.self), NoResult))
            EXCEPT !.rem = PlatformCreateRevision(r.rem, r.self.environment_id, r.self.tags),
                   !.pc = "restrict_get_288"]
    [] r.pc \in {"restrict_get_288", "restrict_get_355"} ->
         LET environment == r.rem[r.self.environment_id]
             at == IF r.pc = "restrict_get_288" THEN "288" ELSE "355"
         IN  IF ShouldRestrict(r.self, environment)
             THEN [AloneLog(r, AloneGet(r))
                     EXCEPT !.self.selected_revision_id = environment.selectedRevision,
                            !.pc = "restrict_call_" \o at]
             ELSE [AloneLog(r, AloneGet(r)) EXCEPT !.pc = AfterRestrict(at)]
    [] r.pc \in {"restrict_call_288", "restrict_call_355"} ->
         [AloneLog(r, Call(r.pc, "restrictEnvironmentRevision", TRUE,
                           r.self.environment_id, r.self.selected_revision_id,
                           NoPayload, NoResult))
            EXCEPT !.rem = PlatformRestrictRevision(r.rem, r.self.environment_id,
                                                    r.self.selected_revision_id),
                   !.pc = AfterRestrict(IF r.pc = "restrict_call_288" THEN "288" ELSE "355")]

RECURSIVE AloneRun(_, _)
AloneRun(r, doc) == IF r.pc \in Returned THEN r ELSE AloneRun(AloneStep(r, doc), doc)

\* The run of a directory that holds doc, alone, on a platform that holds rem.
Alone(doc, rem) ==
  IF doc = NoFile
  THEN [self |-> NewEnvironmentConfig, rem |-> rem, calls |-> <<>>, pc |-> "skipped"]
  ELSE AloneRun([self |-> parse_config_file(NewEnvironmentConfig, doc),
                 rem |-> rem, calls |-> <<>>, pc |-> "exists"], doc)

\* A call as it is logged when it raises.
Raised(call) ==
  [call EXCEPT !.ok = FALSE,
               !.id = IF call.op = "listEnvironments" THEN 0 ELSE @,
               !.result = NoResult]

\* The calls cs of a run at position p are those of the run alone: call for
\* call while it is under way, up to the call that raised when it has
\* failed, all of them when it has completed.  same(c, r) compares a call
\* of the run with the call of the run alone.
AsAlone(p, cs, alone, same(_, _)) ==
  /\ Len(cs) <= Len(alone.calls)
  /\ \A k \in 1..Len(cs) :
       \/ same(cs[k], alone.calls[k])
       \/ k = Len(cs) /\ p = "failed" /\ same(cs[k], Raised(alone.calls[k]))
  /\ p \in {"done", "skipped"} => p = alone.pc /\ Len(cs) = Len(alone.calls)
  /\ alone.pc = "failed" /\ p \in Returned \ {"idle"} => p = "failed"

SameCall(c, r) == c = r

TerminalOutcomes == OkOutcomes \cup {"Failed", "Skipped"}

WithoutId(call) ==
  [ at |-> call.at, op |-> call.op, ok |-> call.ok, named |-> call.id # 0,
    rev |-> call.rev, payload |-> call.payload, result |-> call.result ]

SameCallButId(c, r) == WithoutId(c) = WithoutId(r)

\* The run of directory d is the run it would make alone on the platform as
\* it was when the program started: the same calls (environment ids aside),
\* the same terminal state and, when it has completed, the same resulting
\* environment.
IndependentOfTheOthers(d) ==
  LET alone == Alone(seen[d], start.batch)
  IN  /\ AsAlone(pc[d], calls[d], alone, SameCallButId)
      /\ pc[d] = "done" =>
           remote[ec[d].environment_id] = alone.rem[alone.self.environment_id]

\* No two directories declare the same environment name.
DistinctNames ==
  \A d, e \in DOMAIN file :
    (d # e /\ file[d] # NoFile /\ file[e] # NoFile /\ file[d].name = file[e].name)
      => file[d].name = ""

\* C16 as stated: whatever the directories declare, in every order and
\* interleaving the run of each directory is the run it would make alone.
C16_Independent ==
  \A d \in DOMAIN file : pc[d] # "idle" => IndependentOfTheOthers(d)

\* C16 as amended: when no two directories declare the same environment
\* name, in every order and interleaving the run of each directory is the
\* run it would make alone.
C16_IndependentWhenNamesDiffer ==
  DistinctNames => \A d \in DOMAIN file : pc[d] # "idle" => IndependentOfTheOthers(d)

\* Two directories with different names have both created their
\* environment, each having started before the other created its own.
C16_Witness ==
  /\ DistinctNames
  /\ \A d \in DOMAIN file :
       /\ pc[d] = "done" /\ Outcome(pc[d], calls[d]) = "Created"
       /\ start.env[d] = start.batch
  /\ Cardinality(DOMAIN file) > 1

====
